---- MODULE Spec2Model ----
(***************************************************************************)
(* Model of the gastown mail layer: the `gt mail send` command             *)
(* (runMailSend), Router.Send with its two live-session side effects, the  *)
(* session identity derivation, and the `gt mail wait` poll loop; the      *)
(* address resolver and Router.GetMailbox on any address text; the session *)
(* prefix registry; the mailbox commands (inbox, read, thread, check).     *)
(*                                                                         *)
(* Specifications: Spec (send), WaitSpec and WaitFairSpec (wait),          *)
(* AddrSpec (addresses), RegSpec (registry), MboxSpec (mailbox).           *)
(*                                                                         *)
(* Text that the code takes apart (addresses, session identities) is a     *)
(* sequence of one-character strings; opaque text (thread ids, message     *)
(* ids, flag values) is a string.                                          *)
(***************************************************************************)
EXTENDS Integers, Sequences, FiniteSets, TLC

VARIABLES
    store,      \* durable store: sequence of persisted messages, oldest first
    pc,         \* position of the current gt process: "idle" | "returned"
    flags,      \* command-line flags of the current invocation
    msg,        \* the *mail.Message of the current invocation
    lookup,     \* outcome of the reply-to lookup of the current invocation
    ops,        \* external calls made by the current invocation, in order
    routerErr,  \* what Router.Send returned: "none" (not called) | "nil" | "error"
    cmdErr,     \* what runMailSend returned: "none" (not run) | "nil" | "error"
    wpc,        \* position of the wait command
    now,        \* wall clock, in seconds
    deadline,   \* runMailWait's deadline (0 is the zero time.Time)
    mailWaitTimeout, \* --timeout flag
    unread,     \* unread messages in the waiting agent's mailbox
    polled,     \* what the latest poll observed
    nCount,     \* Count() calls made by runMailWait
    nSleep,     \* time.Sleep calls made by runMailWait
    exitCode,   \* os.Exit code of the wait command, -1 while running
    addr,       \* address text handed to the resolver and to GetMailbox
    sid,        \* what addressToSessionID returned for addr
    resolved,   \* whether addressToSessionID has been called on addr
    mbox,       \* what Router.GetMailbox returned for addr
    regs,       \* the PrefixRegistry objects created so far, by reference
    defaultReg, \* the process-wide default registry: a reference into regs
    registered, \* per registry object, the pairs its Register calls left in it
    lastSet,    \* the registry most recently installed as the default
    reader,     \* a caller reading the default registry while others write
    mret        \* what the mailbox command of the current invocation did

sendVars == <<store, pc, flags, msg, lookup, ops, routerErr, cmdErr>>
waitVars == <<wpc, now, deadline, mailWaitTimeout, unread, polled, nCount, nSleep, exitCode>>
addrVars == <<addr, sid, resolved, mbox>>
\* the variables outside the send and the wait specifications
regVars == <<regs, registered, defaultReg, lastSet, reader>>
restVars == <<addrVars, regVars, mret>>
vars == <<sendVars, waitVars, restVars>>

(***************************************************************************)
(* Bounds of the model.                                                    *)
(***************************************************************************)
MaxStore == 2       \* messages the durable store holds at most
MaxTimeout == 8     \* largest --timeout value tried, in seconds
MaxTime == 16       \* horizon of the wall clock, in seconds
MaxUnread == 2      \* largest unread count of the watched mailbox
MaxParts == 4       \* tokens an address text is put together from at most
MaxRegs == 2        \* PrefixRegistry objects created at most
MaxNameParts == 3   \* tokens a session name is put together from at most

(***************************************************************************)
(* Text helpers (package strings).                                         *)
(***************************************************************************)
HasPrefix(s, p) == Len(s) >= Len(p) /\ SubSeq(s, 1, Len(p)) = p

\* index of the first occurrence of character c in s, 0 when there is none
IndexOf(s, c) ==
    IF \E i \in 1..Len(s) : s[i] = c
    THEN CHOOSE i \in 1..Len(s) : s[i] = c /\ \A j \in 1..(i - 1) : s[j] # c
    ELSE 0

\* strings.SplitN(s, sep, 2): at most two parts, split at the first sep
SplitN2(s, sep) ==
    LET i == IndexOf(s, sep)
    IN  IF i = 0 THEN <<s>> ELSE <<SubSeq(s, 1, i - 1), SubSeq(s, i + 1, Len(s))>>

HexChars == <<"0", "1", "2", "3", "4", "5", "6", "7",
              "8", "9", "a", "b", "c", "d", "e", "f">>

\* hex.EncodeToString: two lowercase hex digits per byte
RECURSIVE HexEncode(_)
HexEncode(b) ==
    IF b = <<>> THEN ""
    ELSE HexChars[(Head(b) \div 16) + 1] \o HexChars[(Head(b) % 16) + 1] \o HexEncode(Tail(b))

(***************************************************************************)
(* Addresses and identities.                                               *)
(***************************************************************************)
MayorAddr == <<"m", "a", "y", "o", "r", "/">>
PolecatAddr == <<"r", "/", "a">>
BroadcastAddr == <<"r", "/">>
Addresses == {MayorAddr, PolecatAddr, BroadcastAddr}

NoSession == <<>>
GtMayor == <<"g", "t", "-", "m", "a", "y", "o", "r">>

addressToSessionID(address) ==
    IF HasPrefix(address, <<"m", "a", "y", "o", "r">>)
    THEN GtMayor
    ELSE LET parts == SplitN2(address, "/")
         IN  IF Len(parts) # 2 \/ parts[2] = <<>>
             THEN NoSession
             ELSE <<"g", "t", "-">> \o parts[1] \o <<"-">> \o parts[2]

\* the identity handed to the durable store: pass-through of the address text
addressToIdentity(address) == address

\* Router.GetMailbox: NewMailboxFromAddress has one result and GetMailbox
\* pairs it with a nil error
NoMailbox == [called |-> FALSE, err |-> FALSE, identity |-> <<>>]

GetMailbox_RejectsNoSeparator(address) ==
    [called |-> TRUE, err |-> IndexOf(address, "/") = 0, identity |-> addressToIdentity(address)]

GetMailbox(address) ==
    [called |-> TRUE, err |-> FALSE, identity |-> addressToIdentity(address)]

(***************************************************************************)
(* Session registry (package session).  A PrefixRegistry is a set of       *)
(* <<prefix, rig name>> pairs; the default registry is a reference to one. *)
(***************************************************************************)
HQPrefix == <<"h", "q", "-">>
DefaultPrefix == <<"g", "t">>
Prefixes == {<<"x", "y">>, <<"z", "z">>}
RigNames == {"xrig", "yrig"}
UnknownRig == "unknown-rig"

NoReader == [pc |-> "idle", snap |-> 0, actives |-> {}]

Register_KeepsStalePairs(reg, prefix, rigName) == reg \cup {<<prefix, rigName>>}

\* Register: adds the pair, overwriting the pair of that prefix and the pair
\* of that rig name
Register(reg, prefix, rigName) ==
    {e \in reg : e[1] # prefix /\ e[2] # rigName} \cup {<<prefix, rigName>>}

PrefixForRig_EmptyWhenUnregistered(reg, rigName) ==
    IF \E e \in reg : e[2] = rigName
    THEN (CHOOSE e \in reg : e[2] = rigName)[1]
    ELSE <<>>

\* PrefixFor on one registry: the registered prefix, or DefaultPrefix
PrefixForRig(reg, rigName) ==
    IF \E e \in reg : e[2] = rigName
    THEN (CHOOSE e \in reg : e[2] = rigName)[1]
    ELSE DefaultPrefix

IsKnownSessionIn_RegistryOnly(reg, name) ==
    \E e \in reg : HasPrefix(name, e[1] \o <<"-">>)

\* IsKnownSession on one registry: the hq- prefix, or a registered prefix
\* followed by "-"
IsKnownSessionIn(reg, name) ==
    \/ HasPrefix(name, HQPrefix)
    \/ \E e \in reg : HasPrefix(name, e[1] \o <<"-">>)

SetDefaultRegistry_CopiesInto(rs, d, r) ==
    [regs |-> [rs EXCEPT ![d] = rs[d] \cup rs[r]], defaultReg |-> d]

\* SetDefaultRegistry: the reference is replaced, no registry is written
SetDefaultRegistry(rs, d, r) == [regs |-> rs, defaultReg |-> r]

\* the package-level readers go through the default registry
DefaultRegistry == defaultReg
PrefixFor(rigName) == PrefixForRig(regs[DefaultRegistry], rigName)
IsKnownSession(name) == IsKnownSessionIn(regs[DefaultRegistry], name)

\* the addresses detectSender can return for the agents that run the command
Senders == {MayorAddr, PolecatAddr}

(***************************************************************************)
(* Messages.                                                               *)
(***************************************************************************)
TypeTask == "task"
TypeScavenge == "scavenge"
TypeNotification == "notification"
TypeReply == "reply"
DeliveryQueue == "queue"
DeliveryInterrupt == "interrupt"

\* mail.ParseMessageType: the named type, notification for anything else
ParseMessageType(s) ==
    IF s \in {TypeTask, TypeScavenge, TypeReply} THEN s ELSE TypeNotification

NoMsg == [From |-> <<>>, To |-> <<>>, Type |-> "", Delivery |-> "",
          ThreadID |-> "", ReplyTo |-> ""]
NoFlags == [mailType |-> "", mailReplyTo |-> "", mailInterrupt |-> FALSE]
NoLookup == [res |-> "none", thread |-> ""]

\* outcomes of crypto/rand.Read for the six bytes of a thread id; a failed
\* read leaves the zeroed buffer
RandOutcomes == {<<0, 0, 0, 0, 0, 0>>, <<222, 173, 190, 239, 0, 31>>}

generateThreadID(b) == "thread-" \o HexEncode(b)

\* ids the durable store assigns, in order of creation
MsgId(n) == "msg-" \o ToString(n)

(***************************************************************************)
(* The durable store and the mailbox lookup used for replies.              *)
(***************************************************************************)
Stored_AlreadyRead(m, st) ==
    [id |-> MsgId(Len(st) + 1), to |-> addressToIdentity(m.To),
     threadId |-> m.ThreadID, read |-> TRUE]

\* the record the store keeps of a created message: its new id, the
\* recipient identity, the thread id passed with --thread-id, unread
Stored(m, st) ==
    [id |-> MsgId(Len(st) + 1), to |-> addressToIdentity(m.To),
     threadId |-> m.ThreadID, read |-> FALSE]

\* Mailbox.Get(id) on the mailbox of `identity`: the message, or an error
\* when the store fails or holds no such message in this mailbox
MailboxGet(st, identity, id, storeOk) ==
    LET hits == {i \in 1..Len(st) : st[i].id = id /\ st[i].to = identity}
    IN  IF storeOk /\ hits # {}
        THEN [err |-> FALSE, ThreadID |-> st[CHOOSE i \in hits : TRUE].threadId]
        ELSE [err |-> TRUE, ThreadID |-> ""]

\* the messages of one mailbox, oldest first
InBox(st, identity) == SelectSeq(st, LAMBDA m : m.to = identity)

Reverse(s) == [i \in 1..Len(s) |-> s[Len(s) + 1 - i]]

\* Mailbox.List(): most recent first
MailboxList(st, identity, storeOk) ==
    IF storeOk
    THEN [err |-> FALSE, messages |-> Reverse(InBox(st, identity))]
    ELSE [err |-> TRUE, messages |-> <<>>]

\* Mailbox.ListUnread(): same ordering, the unread ones
MailboxListUnread(st, identity, storeOk) ==
    IF storeOk
    THEN [err |-> FALSE,
          messages |-> Reverse(SelectSeq(InBox(st, identity), LAMBDA m : ~m.read))]
    ELSE [err |-> TRUE, messages |-> <<>>]

\* Mailbox.ListByThread(threadId): oldest first
MailboxListByThread(st, identity, threadId, storeOk) ==
    IF storeOk
    THEN [err |-> FALSE,
          messages |-> SelectSeq(InBox(st, identity), LAMBDA m : m.threadId = threadId)]
    ELSE [err |-> TRUE, messages |-> <<>>]

\* Mailbox.MarkRead(id): sets the flag of that message of this mailbox; an
\* error when the store fails or the mailbox holds no such message
MailboxMarkRead(st, identity, id, storeOk) ==
    LET hits == {i \in 1..Len(st) : st[i].id = id /\ st[i].to = identity}
    IN  IF storeOk /\ hits # {}
        THEN [err |-> FALSE,
              store |-> [i \in 1..Len(st) |->
                            IF i \in hits THEN [st[i] EXCEPT !.read = TRUE] ELSE st[i]]]
        ELSE [err |-> TRUE, store |-> st]

\* Mailbox.Count(): total and unread of one snapshot
MailboxCount(st, identity, storeOk) ==
    IF storeOk
    THEN [err |-> FALSE, total |-> Len(InBox(st, identity)),
          unread |-> Len(SelectSeq(InBox(st, identity), LAMBDA m : ~m.read))]
    ELSE [err |-> TRUE, total |-> 0, unread |-> 0]

(***************************************************************************)
(* Router: the live-session side effects and Send.                         *)
(***************************************************************************)
HsOutcomes == {"active", "absent", "error"}

\* an external call: its name, the store identity or session it addresses,
\* its outcome, and for the store create the flags of the bd command line
Op(name, target, res, args) ==
    [op |-> name, target |-> target, res |-> res, args |-> args]
NoArgs == [type |-> "", threadId |-> "", replyTo |-> "", actor |-> <<>>]

\* lines 781-807: --type is passed unless empty or notification, --thread-id
\* and --reply-to when set, the sender identity as BEADS_AGENT_NAME
CreateArgs(m) ==
    [type |-> IF m.Type # "" /\ m.Type # TypeNotification THEN m.Type ELSE "",
     threadId |-> m.ThreadID,
     replyTo |-> m.ReplyTo,
     actor |-> addressToIdentity(m.From)]
OkOrError(ok) == IF ok THEN "ok" ELSE "error"

\* notifyRecipient: status-line notification when the session is active.
\* hs is the outcome of tmux.HasSession, pushOk that of DisplayMessageDefault.
notifyRecipient(m, hs, pushOk) ==
    LET sessionID == addressToSessionID(m.To)
    IN  IF sessionID = NoSession
        THEN [ops |-> <<>>, err |-> FALSE]
        ELSE IF hs # "active"
        THEN [ops |-> <<Op("HasSession", sessionID, hs, NoArgs)>>, err |-> FALSE]
        ELSE [ops |-> <<Op("HasSession", sessionID, hs, NoArgs),
                        Op("DisplayMessage", sessionID, OkOrError(pushOk), NoArgs)>>,
              err |-> ~pushOk]

\* interruptRecipient without the err != nil test of the presence check
interruptRecipient_IgnoresCheckError(m, hs, pushOk) ==
    LET sessionID == addressToSessionID(m.To)
    IN  IF sessionID = NoSession
        THEN [ops |-> <<>>, err |-> FALSE]
        ELSE IF hs = "absent"
        THEN [ops |-> <<Op("HasSession", sessionID, hs, NoArgs)>>, err |-> FALSE]
        ELSE [ops |-> <<Op("HasSession", sessionID, hs, NoArgs),
                        Op("SendKeysRaw", sessionID, OkOrError(pushOk), NoArgs)>>,
              err |-> ~pushOk]

\* interruptRecipient: injection of the reminder block when the session is
\* active. pushOk is the outcome of tmux.SendKeysRaw.
interruptRecipient(m, hs, pushOk) ==
    LET sessionID == addressToSessionID(m.To)
    IN  IF sessionID = NoSession
        THEN [ops |-> <<>>, err |-> FALSE]
        ELSE IF hs # "active"
        THEN [ops |-> <<Op("HasSession", sessionID, hs, NoArgs)>>, err |-> FALSE]
        ELSE [ops |-> <<Op("HasSession", sessionID, hs, NoArgs),
                        Op("SendKeysRaw", sessionID, OkOrError(pushOk), NoArgs)>>,
              err |-> ~pushOk]

\* Send that runs the side effect without looking at the create's result
Send_SideEffectRegardless(m, createOk, hs, pushOk) ==
    LET create == Op("create", addressToIdentity(m.To), OkOrError(createOk), CreateArgs(m))
        side == IF m.Delivery = DeliveryInterrupt
                THEN interruptRecipient(m, hs, pushOk)
                ELSE notifyRecipient(m, hs, pushOk)
    IN  [ops |-> <<create>> \o side.ops, err |-> ~createOk, persisted |-> createOk]

\* Send that notifies in the status line in interrupt mode too
Send_InterruptAlsoNotifies(m, createOk, hs, pushOk) ==
    LET create == Op("create", addressToIdentity(m.To), OkOrError(createOk), CreateArgs(m))
    IN  IF ~createOk
        THEN [ops |-> <<create>>, err |-> TRUE, persisted |-> FALSE]
        ELSE LET side == IF m.Delivery = DeliveryInterrupt
                         THEN [ops |-> interruptRecipient(m, hs, pushOk).ops
                                       \o notifyRecipient(m, hs, pushOk).ops]
                         ELSE [ops |-> notifyRecipient(m, hs, pushOk).ops]
             IN  [ops |-> <<create>> \o side.ops, err |-> FALSE, persisted |-> TRUE]

\* Send that returns the side effect's error
Send_ReturnsSideError(m, createOk, hs, pushOk) ==
    LET create == Op("create", addressToIdentity(m.To), OkOrError(createOk), CreateArgs(m))
    IN  IF ~createOk
        THEN [ops |-> <<create>>, err |-> TRUE, persisted |-> FALSE]
        ELSE LET side == IF m.Delivery = DeliveryInterrupt
                         THEN interruptRecipient(m, hs, pushOk)
                         ELSE notifyRecipient(m, hs, pushOk)
             IN  [ops |-> <<create>> \o side.ops, err |-> side.err, persisted |-> TRUE]

\* Router.Send: `bd mail send` (outcome createOk), then the side effect of
\* the delivery mode, whose result is dropped.
\* Result: the external calls in order, the returned error, whether persisted.
Send(m, createOk, hs, pushOk) ==
    LET create == Op("create", addressToIdentity(m.To), OkOrError(createOk), CreateArgs(m))
    IN  IF ~createOk
        THEN [ops |-> <<create>>, err |-> TRUE, persisted |-> FALSE]
        ELSE LET side == IF m.Delivery = DeliveryInterrupt
                         THEN interruptRecipient(m, hs, pushOk)
                         ELSE notifyRecipient(m, hs, pushOk)
             IN  [ops |-> <<create>> \o side.ops, err |-> FALSE, persisted |-> TRUE]

\* the side-effect outcomes Send can consume for message m, given createOk:
\* outcomes of calls that are never made are not enumerated
SideOutcomes(m, createOk) ==
    IF ~createOk \/ addressToSessionID(m.To) = NoSession
    THEN {<<"absent", TRUE>>}
    ELSE {o \in HsOutcomes \X BOOLEAN : o[1] # "active" => o[2]}

(***************************************************************************)
(* runMailSend: the message built from the flags.                          *)
(***************************************************************************)
MailTypeFlags == {"notification", "task", "scavenge", "reply", "bogus"}
ReplyToFlags == {""} \cup {MsgId(n) : n \in 1..MaxStore}
FlagSets == [mailType : MailTypeFlags, mailReplyTo : ReplyToFlags,
             mailInterrupt : BOOLEAN]

\* lines 225-247: the message before the reply-to handling
NewMessage(to, from, fl) ==
    [From |-> from, To |-> to,
     Type |-> ParseMessageType(fl.mailType),
     Delivery |-> IF fl.mailInterrupt THEN DeliveryInterrupt ELSE DeliveryQueue,
     ThreadID |-> "", ReplyTo |-> ""]

\* reply-to handling that does not take over the original's thread id
HandleReplyTo_NoInherit(m, fl, get) ==
    IF fl.mailReplyTo # ""
    THEN [m EXCEPT !.ReplyTo = fl.mailReplyTo,
                   !.Type = IF @ = TypeNotification THEN TypeReply ELSE @]
    ELSE m

\* reply-to handling that overrides every type with reply
HandleReplyTo_AlwaysReply(m, fl, get) ==
    IF fl.mailReplyTo # ""
    THEN [m EXCEPT !.ReplyTo = fl.mailReplyTo,
                   !.Type = TypeReply,
                   !.ThreadID = IF ~get.err THEN get.ThreadID ELSE @]
    ELSE m

\* lines 250-264: reply-to sets ReplyTo, upgrades a notification to a reply
\* and takes the thread id of the original when mailbox.Get found it
HandleReplyTo(m, fl, get) ==
    IF fl.mailReplyTo # ""
    THEN [m EXCEPT !.ReplyTo = fl.mailReplyTo,
                   !.Type = IF @ = TypeNotification THEN TypeReply ELSE @,
                   !.ThreadID = IF ~get.err THEN get.ThreadID ELSE @]
    ELSE m

\* runMailSend without the generation of a missing thread id
EnsureThreadID_Skipped(m, b) == m

\* lines 266-269: a thread id is generated when there is none yet
EnsureThreadID(m, b) ==
    IF m.ThreadID = "" THEN [m EXCEPT !.ThreadID = generateThreadID(b)] ELSE m

\* the message runMailSend hands to Router.Send
BuildMessage(to, from, fl, get, b) ==
    EnsureThreadID(HandleReplyTo(NewMessage(to, from, fl), fl, get), b)

\* what the lookup of the original message came to
LookupOf(fl, get) ==
    IF fl.mailReplyTo = "" THEN NoLookup
    ELSE IF get.err THEN [res |-> "failed", thread |-> ""]
    ELSE [res |-> "found", thread |-> get.ThreadID]

(***************************************************************************)
(* Actions of the send specification.                                      *)
(***************************************************************************)
\* `gt mail send <to>` run by agent `from`: runMailSend as a whole
MailSendCmd ==
    /\ pc = "idle"
    /\ Len(store) < MaxStore
    /\ \E to \in Addresses, from \in Senders, fl \in FlagSets, workDirOk \in BOOLEAN :
         /\ flags' = fl
         /\ pc' = "returned"
         /\ IF ~workDirOk
            THEN /\ cmdErr' = "error"
                 /\ routerErr' = "none"
                 /\ msg' = NoMsg
                 /\ lookup' = NoLookup
                 /\ ops' = <<>>
                 /\ store' = store
            ELSE \E storeOk \in (IF fl.mailReplyTo = "" THEN {TRUE} ELSE BOOLEAN) :
                 LET get == MailboxGet(store, addressToIdentity(from), fl.mailReplyTo, storeOk)
                     pre == HandleReplyTo(NewMessage(to, from, fl), fl, get)
                 IN  \E b \in (IF pre.ThreadID = "" THEN RandOutcomes
                                ELSE {<<0, 0, 0, 0, 0, 0>>}) :
                     LET m == BuildMessage(to, from, fl, get, b)
                     IN  \E createOk \in BOOLEAN :
                         \E o \in SideOutcomes(m, createOk) :
                         LET r == Send(m, createOk, o[1], o[2])
                         IN  /\ msg' = m
                             /\ lookup' = LookupOf(fl, get)
                             /\ ops' = r.ops
                             /\ routerErr' = IF r.err THEN "error" ELSE "nil"
                             /\ cmdErr' = IF r.err THEN "error" ELSE "nil"
                             /\ store' = IF r.persisted
                                         THEN Append(store, Stored(m, store))
                                         ELSE store
    /\ UNCHANGED <<waitVars, restVars>>

\* messages other callers hand to Router.Send directly
DirectMsgs ==
    [From : Senders, To : Addresses, Type : {TypeNotification, TypeTask},
     Delivery : {DeliveryQueue, DeliveryInterrupt, ""},
     ThreadID : {""} \cup {generateThreadID(b) : b \in RandOutcomes},
     ReplyTo : {""}]

\* Router.Send called on a message built elsewhere
RouterSendCall ==
    /\ pc = "idle"
    /\ Len(store) < MaxStore
    /\ \E m \in DirectMsgs, createOk \in BOOLEAN :
       \E o \in SideOutcomes(m, createOk) :
         LET r == Send(m, createOk, o[1], o[2])
         IN  /\ msg' = m
             /\ ops' = r.ops
             /\ routerErr' = IF r.err THEN "error" ELSE "nil"
             /\ store' = IF r.persisted THEN Append(store, Stored(m, store)) ELSE store
    /\ pc' = "returned"
    /\ flags' = NoFlags
    /\ lookup' = NoLookup
    /\ cmdErr' = "none"
    /\ UNCHANGED <<waitVars, restVars>>

\* the process ends; only the durable store outlives it
ProcessExit ==
    /\ pc = "returned"
    /\ pc' = "idle"
    /\ flags' = NoFlags
    /\ msg' = NoMsg
    /\ lookup' = NoLookup
    /\ ops' = <<>>
    /\ routerErr' = "none"
    /\ cmdErr' = "none"
    /\ UNCHANGED <<store>>
    /\ UNCHANGED <<waitVars, restVars>>

SendInit ==
    /\ store = <<>>
    /\ pc = "idle"
    /\ flags = NoFlags
    /\ msg = NoMsg
    /\ lookup = NoLookup
    /\ ops = <<>>
    /\ routerErr = "none"
    /\ cmdErr = "none"

\* no mailbox command run
NoRet ==
    [cmd |-> "none", address |-> <<>>, id |-> "", err |-> FALSE, messages |-> <<>>,
     count |-> 0, marked |-> FALSE, wasRead |-> FALSE, mode |-> "", ret |-> "none"]

\* the registry the process starts with, no reader
RegIdle ==
    /\ regs = <<{}>>
    /\ registered = <<{}>>
    /\ defaultReg = 1
    /\ lastSet = 1
    /\ reader = NoReader

\* no address handed to the resolver
AddrIdle ==
    /\ addr = <<>>
    /\ sid = NoSession
    /\ resolved = FALSE
    /\ mbox = NoMailbox

RestIdle == AddrIdle /\ RegIdle /\ mret = NoRet

\* the wait command not started
WaitIdle ==
    /\ wpc = "start"
    /\ now = 0
    /\ deadline = 0
    /\ mailWaitTimeout = 0
    /\ unread = 0
    /\ polled = [err |-> FALSE, unread |-> 0, at |-> 0]
    /\ nCount = 0
    /\ nSleep = 0
    /\ exitCode = -1

Init == SendInit /\ WaitIdle /\ RestIdle

Next == MailSendCmd \/ RouterSendCall \/ ProcessExit

Spec == Init /\ [][Next]_vars

(***************************************************************************)
(* runMailWait: the poll loop of `gt mail wait`.                           *)
(***************************************************************************)
pollInterval == 5
ExitMailArrived == 0
ExitTimeout == 1
ExitError == 2

Terminal == {"MailArrived", "TimedOut", "Errored"}

\* time.Now().After(deadline)
After(t, d) == t > d

\* lines 705-709: the deadline, the zero time when no timeout is given
DeadlineFor(timeout, t) == IF timeout > 0 THEN t + timeout ELSE 0

\* a loop whose deadline test also fires at the deadline itself
PollOutcome_TimeoutAtDeadline(countOk, n, timeout, t, d) ==
    IF ~countOk THEN "Errored"
    ELSE IF n > 0 THEN "MailArrived"
    ELSE IF timeout > 0 /\ t >= d THEN "TimedOut"
    ELSE "Sleeping"

\* a loop that sleeps and polls again after a Count error
PollOutcome_RetriesOnError(countOk, n, timeout, t, d) ==
    IF ~countOk THEN "Sleeping"
    ELSE IF n > 0 THEN "MailArrived"
    ELSE IF timeout > 0 /\ After(t, d) THEN "TimedOut"
    ELSE "Sleeping"

\* a loop that tests the deadline without testing that a timeout was given
PollOutcome_NoTimeoutGuard(countOk, n, timeout, t, d) ==
    IF ~countOk THEN "Errored"
    ELSE IF n > 0 THEN "MailArrived"
    ELSE IF After(t, d) THEN "TimedOut"
    ELSE "Sleeping"

PollOutcome_DeadlineFirst(countOk, n, timeout, t, d) ==
    IF ~countOk THEN "Errored"
    ELSE IF timeout > 0 /\ After(t, d) THEN "TimedOut"
    ELSE IF n > 0 THEN "MailArrived"
    ELSE "Sleeping"

\* lines 714-738: what one pass of the loop comes to, given the outcome of
\* mailbox.Count() and the time read after it
PollOutcome(countOk, n, timeout, t, d) ==
    IF ~countOk THEN "Errored"
    ELSE IF n > 0 THEN "MailArrived"
    ELSE IF timeout > 0 /\ After(t, d) THEN "TimedOut"
    ELSE "Sleeping"

ExitCodeOf(outcome) ==
    CASE outcome = "MailArrived" -> ExitMailArrived
      [] outcome = "TimedOut" -> ExitTimeout
      [] outcome = "Errored" -> ExitError
      [] OTHER -> -1

\* lines 684-712: workspace and mailbox found, deadline computed; a missing
\* workspace ends the command with the error exit code before any poll
WaitStart ==
    /\ wpc = "start"
    /\ \E workDirOk \in BOOLEAN :
         IF workDirOk
         THEN /\ wpc' = "Waiting"
              /\ deadline' = DeadlineFor(mailWaitTimeout, now)
              /\ exitCode' = exitCode
         ELSE /\ wpc' = "Errored"
              /\ deadline' = deadline
              /\ exitCode' = ExitError
    /\ UNCHANGED <<now, mailWaitTimeout, unread, polled, nCount, nSleep>>
    /\ UNCHANGED <<sendVars, restVars>>

\* one pass of the loop up to the sleep
WaitPoll ==
    /\ wpc = "Waiting"
    /\ \E countOk \in BOOLEAN :
         LET outcome == PollOutcome(countOk, unread, mailWaitTimeout, now, deadline)
         IN  /\ wpc' = outcome
             /\ exitCode' = ExitCodeOf(outcome)
             /\ polled' = [err |-> ~countOk, unread |-> IF countOk THEN unread ELSE 0,
                           at |-> now]
    /\ nCount' = nCount + 1
    /\ UNCHANGED <<now, deadline, mailWaitTimeout, unread, nSleep>>
    /\ UNCHANGED <<sendVars, restVars>>

\* time.Sleep(pollInterval), then the next pass
WaitSleep ==
    /\ wpc = "Sleeping"
    /\ now + pollInterval <= MaxTime
    /\ now' = now + pollInterval
    /\ nSleep' = nSleep + 1
    /\ wpc' = "Waiting"
    /\ UNCHANGED <<deadline, mailWaitTimeout, unread, polled, nCount, exitCode>>
    /\ UNCHANGED <<sendVars, restVars>>

\* time passes between the end of a sleep and the deadline check of the next
\* pass (an oversleeping Sleep, a slow Count)
Tick ==
    /\ wpc = "Waiting"
    /\ now < MaxTime
    /\ now' = now + 1
    /\ UNCHANGED <<wpc, deadline, mailWaitTimeout, unread, polled, nCount, nSleep, exitCode>>
    /\ UNCHANGED <<sendVars, restVars>>

\* another agent's mail lands in the watched mailbox
MailArrives ==
    /\ unread < MaxUnread
    /\ unread' = unread + 1
    /\ UNCHANGED <<wpc, now, deadline, mailWaitTimeout, polled, nCount, nSleep, exitCode>>
    /\ UNCHANGED <<sendVars, restVars>>

\* a message of the watched mailbox is read or deleted elsewhere
MailRead ==
    /\ unread > 0
    /\ unread' = unread - 1
    /\ UNCHANGED <<wpc, now, deadline, mailWaitTimeout, polled, nCount, nSleep, exitCode>>
    /\ UNCHANGED <<sendVars, restVars>>

\* the command starts at time 0 with any --timeout (an int flag, so negative
\* too) whose deadline and the sleep that follows it lie within the clock's
\* horizon
WaitInit ==
    /\ SendInit
    /\ RestIdle
    /\ wpc = "start"
    /\ now = 0
    /\ deadline = 0
    /\ mailWaitTimeout \in {t \in (-1)..MaxTimeout : t + pollInterval <= MaxTime}
    /\ unread \in 0..MaxUnread
    /\ polled = [err |-> FALSE, unread |-> 0, at |-> 0]
    /\ nCount = 0
    /\ nSleep = 0
    /\ exitCode = -1

WaitNext == WaitStart \/ WaitPoll \/ WaitSleep \/ Tick \/ MailArrives \/ MailRead

WaitSpec == WaitInit /\ [][WaitNext]_vars

\* the loop is sequential code: each Count returns and each Sleep ends
WaitFairSpec ==
    WaitInit /\ [][WaitNext]_vars
    /\ WF_vars(WaitStart) /\ WF_vars(WaitPoll) /\ WF_vars(WaitSleep)

(***************************************************************************)
(* The address specification: any address text handed to                   *)
(* addressToSessionID, to Router.GetMailbox and to Router.Send.            *)
(***************************************************************************)
Tokens == {<<"m", "a", "y", "o", "r">>, <<"r">>, <<"a">>, <<"/">>, <<"-">>}

RECURSIVE Concat(_)
Concat(ts) == IF ts = <<>> THEN <<>> ELSE Head(ts) \o Concat(Tail(ts))

\* address texts: a string is any text, so every concatenation of tokens
AddrInputs == {Concat(ts) : ts \in UNION {[1..n -> Tokens] : n \in 0..MaxParts}}

\* addressToSessionID(addr), as notifyRecipient and interruptRecipient call it
ResolveSession ==
    /\ ~resolved
    /\ sid' = addressToSessionID(addr)
    /\ resolved' = TRUE
    /\ UNCHANGED <<addr, mbox>>
    /\ UNCHANGED <<sendVars, waitVars, regVars, mret>>

\* router.GetMailbox(addr)
GetMailboxCall ==
    /\ ~mbox.called
    /\ mbox' = GetMailbox(addr)
    /\ UNCHANGED <<addr, sid, resolved>>
    /\ UNCHANGED <<sendVars, waitVars, regVars, mret>>

\* the messages sent to addr
AddrMsgs ==
    [From : {MayorAddr}, To : {addr}, Type : {TypeNotification},
     Delivery : {DeliveryQueue, DeliveryInterrupt}, ThreadID : {""}, ReplyTo : {""}]

\* Router.Send of a message whose To is addr
SendToAddr ==
    /\ pc = "idle"
    /\ Len(store) < MaxStore
    /\ \E m \in AddrMsgs, createOk \in BOOLEAN :
       \E o \in SideOutcomes(m, createOk) :
         LET r == Send(m, createOk, o[1], o[2])
         IN  /\ msg' = m
             /\ ops' = r.ops
             /\ routerErr' = IF r.err THEN "error" ELSE "nil"
             /\ store' = IF r.persisted THEN Append(store, Stored(m, store)) ELSE store
    /\ pc' = "returned"
    /\ flags' = NoFlags
    /\ lookup' = NoLookup
    /\ cmdErr' = "none"
    /\ UNCHANGED <<waitVars, addrVars, regVars, mret>>

AddrInit ==
    /\ SendInit
    /\ WaitIdle
    /\ RegIdle
    /\ mret = NoRet
    /\ addr \in AddrInputs
    /\ sid = NoSession
    /\ resolved = FALSE
    /\ mbox = NoMailbox

AddrNext == ResolveSession \/ GetMailboxCall \/ SendToAddr

AddrSpec == AddrInit /\ [][AddrNext]_vars

(***************************************************************************)
(* The registry specification: registries are created, filled and          *)
(* installed as the default while a reader goes through the default.       *)
(***************************************************************************)
\* r := NewPrefixRegistry()
NewPrefixRegistry ==
    /\ Len(regs) < MaxRegs
    /\ regs' = Append(regs, {})
    /\ registered' = Append(registered, {})
    /\ UNCHANGED <<defaultReg, lastSet, reader>>
    /\ UNCHANGED <<sendVars, waitVars, addrVars, mret>>

\* r.Register(prefix, rigName) on any registry, the default one included
RegisterCall ==
    /\ \E i \in DOMAIN regs, prefix \in Prefixes, rigName \in RigNames :
         /\ regs' = [regs EXCEPT ![i] = Register(@, prefix, rigName)]
         /\ registered' = [registered EXCEPT ![i] = Register(@, prefix, rigName)]
    /\ UNCHANGED <<defaultReg, lastSet, reader>>
    /\ UNCHANGED <<sendVars, waitVars, addrVars, mret>>

\* SetDefaultRegistry(r)
SetDefaultRegistryCall ==
    /\ \E i \in DOMAIN regs :
         LET set == SetDefaultRegistry(regs, defaultReg, i)
         IN  /\ regs' = set.regs
             /\ defaultReg' = set.defaultReg
             /\ lastSet' = i
             /\ reader' = IF reader.pc = "loaded"
                           THEN [reader EXCEPT !.actives = @ \cup {i}]
                           ELSE reader
    /\ UNCHANGED registered
    /\ UNCHANGED <<sendVars, waitVars, addrVars, mret>>

\* a reader (DefaultRegistry, PrefixFor, IsKnownSession) takes the default
\* registry
ReadLoad ==
    /\ reader.pc = "idle"
    /\ reader' = [pc |-> "loaded", snap |-> DefaultRegistry, actives |-> {lastSet}]
    /\ UNCHANGED <<regs, registered, defaultReg, lastSet>>
    /\ UNCHANGED <<sendVars, waitVars, addrVars, mret>>

\* the pairs the reader finds in the registry it took
Seen == regs[reader.snap]

\* the reader looks its registry up, finds Seen, and its call returns
ReadEntries ==
    /\ reader.pc = "loaded"
    /\ reader' = NoReader
    /\ UNCHANGED <<regs, registered, defaultReg, lastSet>>
    /\ UNCHANGED <<sendVars, waitVars, addrVars, mret>>

RegInit == SendInit /\ WaitIdle /\ AddrIdle /\ RegIdle /\ mret = NoRet

\* session names handed to IsKnownSession: any text
NameTokens == {<<"h", "q">>, <<"x", "y">>, <<"z", "z">>, <<"w">>, <<"-">>}
SessionNames == {Concat(ts) : ts \in UNION {[1..n -> NameTokens] : n \in 0..MaxNameParts}}

RegNext ==
    \/ NewPrefixRegistry \/ RegisterCall \/ SetDefaultRegistryCall
    \/ ReadLoad \/ ReadEntries

RegSpec == RegInit /\ [][RegNext]_vars

(***************************************************************************)
(* The mailbox specification: messages are sent to the agents' mailboxes   *)
(* while the agents run `gt mail inbox`, `read`, `thread` and `check` and  *)
(* one of them runs `gt mail wait`.                                        *)
(***************************************************************************)
\* the agent that runs `gt mail wait`
Watcher == PolecatAddr

\* the unread count of the watcher's mailbox
UnreadOf(st) == MailboxCount(st, GetMailbox(Watcher).identity, TRUE).unread

BoxThread == generateThreadID(<<0, 0, 0, 0, 0, 0>>)
MsgIds == {MsgId(n) : n \in 1..MaxStore}

\* the messages sent to the agents
BoxMsgs ==
    [From : {MayorAddr}, To : Senders, Type : {TypeNotification},
     Delivery : {DeliveryQueue}, ThreadID : {"", BoxThread}, ReplyTo : {""}]

\* Router.Send of a message to an agent
BoxSend ==
    /\ pc = "idle"
    /\ Len(store) < MaxStore
    /\ \E m \in BoxMsgs, createOk \in BOOLEAN :
       \E o \in SideOutcomes(m, createOk) :
         LET r == Send(m, createOk, o[1], o[2])
             st == IF r.persisted THEN Append(store, Stored(m, store)) ELSE store
         IN  /\ msg' = m
             /\ ops' = r.ops
             /\ routerErr' = IF r.err THEN "error" ELSE "nil"
             /\ store' = st
             /\ unread' = UnreadOf(st)
             /\ mret' = [NoRet EXCEPT !.cmd = "send", !.address = m.To,
                                      !.id = IF r.persisted THEN st[Len(st)].id ELSE "",
                                      !.err = r.err,
                                      !.ret = IF r.err THEN "error" ELSE "nil"]
    /\ pc' = "returned"
    /\ flags' = NoFlags
    /\ lookup' = NoLookup
    /\ cmdErr' = "none"
    /\ UNCHANGED <<wpc, now, deadline, mailWaitTimeout, polled, nCount, nSleep, exitCode>>
    /\ UNCHANGED <<addrVars, regVars>>

\* `gt mail inbox [address]`, with or without --unread
MailInboxCmd ==
    /\ pc = "idle"
    /\ \E address \in Senders, mailInboxUnread \in BOOLEAN,
          workDirOk \in BOOLEAN, storeOk \in BOOLEAN :
         LET mailbox == GetMailbox(address)
             l == IF mailInboxUnread
                  THEN MailboxListUnread(store, mailbox.identity, storeOk)
                  ELSE MailboxList(store, mailbox.identity, storeOk)
             name == IF mailInboxUnread THEN "inbox-unread" ELSE "inbox"
         IN  mret' = IF ~workDirOk \/ mailbox.err
                     THEN [NoRet EXCEPT !.cmd = name, !.address = address,
                                        !.err = TRUE, !.ret = "error"]
                     ELSE [NoRet EXCEPT !.cmd = name, !.address = address,
                                        !.err = l.err, !.messages = l.messages,
                                        !.ret = IF l.err THEN "error" ELSE "nil"]
    /\ pc' = "returned"
    /\ UNCHANGED <<store, flags, msg, lookup, ops, routerErr, cmdErr>>
    /\ UNCHANGED <<waitVars, addrVars, regVars>>

ReadMessage_MarksWholeMailbox(st, identity, id, getOk, markOk) ==
    LET get == MailboxGet(st, identity, id, getOk)
    IN  IF get.err
        THEN [err |-> TRUE, store |-> st, marked |-> FALSE]
        ELSE [err |-> FALSE,
              store |-> [i \in 1..Len(st) |->
                            IF st[i].to = identity
                            THEN [st[i] EXCEPT !.read = TRUE] ELSE st[i]],
              marked |-> TRUE]

\* runMailRead after the mailbox is found: Get, then MarkRead whose error
\* is dropped
ReadMessage(st, identity, id, getOk, markOk) ==
    LET get == MailboxGet(st, identity, id, getOk)
        mark == MailboxMarkRead(st, identity, id, markOk)
    IN  IF get.err
        THEN [err |-> TRUE, store |-> st, marked |-> FALSE]
        ELSE [err |-> FALSE, store |-> mark.store, marked |-> ~mark.err]

\* `gt mail read <id>` run by an agent
MailReadCmd ==
    /\ pc = "idle"
    /\ \E agent \in Senders, msgID \in MsgIds,
          workDirOk \in BOOLEAN, getOk \in BOOLEAN, markOk \in BOOLEAN :
         LET mailbox == GetMailbox(agent)
             r == ReadMessage(store, mailbox.identity, msgID, getOk, markOk)
             was == \E i \in 1..Len(store) :
                        /\ store[i].id = msgID /\ store[i].to = mailbox.identity
                        /\ store[i].read
         IN  IF ~workDirOk \/ mailbox.err
             THEN /\ store' = store
                  /\ mret' = [NoRet EXCEPT !.cmd = "read", !.address = agent, !.id = msgID,
                                           !.err = TRUE, !.ret = "error"]
             ELSE /\ store' = r.store
                  /\ mret' = [NoRet EXCEPT !.cmd = "read", !.address = agent, !.id = msgID,
                                           !.err = r.err, !.marked = r.marked,
                                           !.wasRead = was,
                                           !.ret = IF r.err THEN "error" ELSE "nil"]
    /\ unread' = UnreadOf(store')
    /\ pc' = "returned"
    /\ UNCHANGED <<flags, msg, lookup, ops, routerErr, cmdErr>>
    /\ UNCHANGED <<wpc, now, deadline, mailWaitTimeout, polled, nCount, nSleep, exitCode>>
    /\ UNCHANGED <<addrVars, regVars>>

\* `gt mail thread <thread-id>` run by an agent
MailThreadCmd ==
    /\ pc = "idle"
    /\ \E agent \in Senders, threadID \in {BoxThread, "thread-none"},
          workDirOk \in BOOLEAN, storeOk \in BOOLEAN :
         LET mailbox == GetMailbox(agent)
             l == MailboxListByThread(store, mailbox.identity, threadID, storeOk)
         IN  mret' = IF ~workDirOk \/ mailbox.err
                     THEN [NoRet EXCEPT !.cmd = "thread", !.address = agent, !.id = threadID,
                                        !.err = TRUE, !.ret = "error"]
                     ELSE [NoRet EXCEPT !.cmd = "thread", !.address = agent, !.id = threadID,
                                        !.err = l.err, !.messages = l.messages,
                                        !.ret = IF l.err THEN "error" ELSE "nil"]
    /\ pc' = "returned"
    /\ UNCHANGED <<store, flags, msg, lookup, ops, routerErr, cmdErr>>
    /\ UNCHANGED <<waitVars, addrVars, regVars>>

\* the mode the flags of `gt mail check` select
CheckMode(mailCheckInject, mailCheckQuiet, mailCheckJSON) ==
    IF mailCheckInject \/ mailCheckQuiet THEN "silent"
    ELSE IF mailCheckJSON THEN "json"
    ELSE "normal"

CheckReturn_SilentReportsErrors(mailCheckInject, mailCheckQuiet, mailCheckJSON, workDirOk, count) ==
    IF ~workDirOk \/ count.err THEN "error"
    ELSE IF mailCheckQuiet \/ mailCheckJSON \/ mailCheckInject THEN "nil"
    ELSE IF count.unread > 0 THEN "exit0"
    ELSE "exit1"

\* runMailCheck: how the command ends ("nil" and "error" are what it
\* returns, "exit0" and "exit1" its os.Exit calls), given the flags, whether
\* the workspace was found, and what mailbox.Count() gave
CheckReturn(mailCheckInject, mailCheckQuiet, mailCheckJSON, workDirOk, count) ==
    LET silentMode == mailCheckInject \/ mailCheckQuiet
    IN  IF ~workDirOk \/ count.err
        THEN (IF silentMode THEN "nil" ELSE "error")
        ELSE IF mailCheckQuiet \/ mailCheckJSON \/ mailCheckInject THEN "nil"
        ELSE IF count.unread > 0 THEN "exit0"
        ELSE "exit1"

\* `gt mail check` run by an agent: Count, and in inject mode ListUnread
\* when there is unread mail
MailCheckCmd ==
    /\ pc = "idle"
    /\ \E agent \in Senders, mailCheckInject \in BOOLEAN, mailCheckQuiet \in BOOLEAN,
          mailCheckJSON \in BOOLEAN, workDirOk \in BOOLEAN, countOk \in BOOLEAN,
          listOk \in BOOLEAN :
         LET mailbox == GetMailbox(agent)
             count == MailboxCount(store, mailbox.identity, countOk)
             counted == workDirOk /\ ~count.err
             lists == /\ counted /\ mailCheckInject /\ ~mailCheckQuiet /\ ~mailCheckJSON
                      /\ count.unread > 0
             l == MailboxListUnread(store, mailbox.identity, listOk)
         IN  mret' = [NoRet EXCEPT
                        !.cmd = "check", !.address = agent,
                        !.mode = CheckMode(mailCheckInject, mailCheckQuiet, mailCheckJSON),
                        !.err = ~counted,
                        !.count = IF counted THEN count.unread ELSE 0,
                        !.messages = IF lists THEN l.messages ELSE <<>>,
                        !.ret = CheckReturn(mailCheckInject, mailCheckQuiet,
                                            mailCheckJSON, workDirOk, count)]
    /\ pc' = "returned"
    /\ UNCHANGED <<store, flags, msg, lookup, ops, routerErr, cmdErr>>
    /\ UNCHANGED <<waitVars, addrVars, regVars>>

\* the process of the command ends; only the durable store outlives it
BoxExit ==
    /\ pc = "returned"
    /\ pc' = "idle"
    /\ flags' = NoFlags
    /\ msg' = NoMsg
    /\ lookup' = NoLookup
    /\ ops' = <<>>
    /\ routerErr' = "none"
    /\ cmdErr' = "none"
    /\ mret' = NoRet
    /\ UNCHANGED <<store>>
    /\ UNCHANGED <<waitVars, addrVars, regVars>>

MboxInit == SendInit /\ WaitIdle /\ AddrIdle /\ RegIdle /\ mret = NoRet

MboxNext ==
    \/ BoxSend \/ MailInboxCmd \/ MailReadCmd \/ MailThreadCmd \/ MailCheckCmd
    \/ BoxExit
    \/ WaitStart \/ WaitPoll \/ WaitSleep

MboxSpec == MboxInit /\ [][MboxNext]_vars

(***************************************************************************)
(* Properties of Router.Send (specification Spec).                         *)
(***************************************************************************)
SessionOpNames == {"HasSession", "DisplayMessage", "SendKeysRaw"}
PushOpNames == {"DisplayMessage", "SendKeysRaw"}
OpsNamed(names) == {i \in DOMAIN ops : ops[i].op \in names}
SendRan == routerErr # "none"
CreateOk == SendRan /\ ops[1].res = "ok"
LastStoredIs(m) ==
    /\ Len(store) > 0
    /\ store[Len(store)].to = addressToIdentity(m.To)
    /\ store[Len(store)].threadId = m.ThreadID
    /\ store[Len(store)].read = FALSE

\* C1: in every Send the first external call is the store create, made
\* exactly once; every live-session call (presence check, notification,
\* injection) comes after a create that succeeded; when the create failed,
\* Send returns the error and makes no live-session call at all.
C1_SideEffectAfterPersist ==
    SendRan =>
        /\ ops # <<>> /\ ops[1].op = "create"
        /\ OpsNamed({"create"}) = {1}
        /\ \A i \in OpsNamed(SessionOpNames) : ops[1].res = "ok" /\ 1 < i
        /\ ops[1].res = "error" => (routerErr = "error" /\ OpsNamed(SessionOpNames) = {})

C1_Witness ==
    /\ routerErr = "nil"
    /\ Len(ops) = 3
    /\ ops[3].op = "DisplayMessage"

\* C2: a successful Send pushes into a session at most once and checks
\* presence at most once; delivery interrupt never notifies, delivery queue
\* never injects; when the session is active the one push of the delivery
\* mode is made.
C2_OneSideEffectByDelivery ==
    (SendRan /\ routerErr = "nil") =>
        /\ Cardinality(OpsNamed(PushOpNames)) <= 1
        /\ Cardinality(OpsNamed({"HasSession"})) <= 1
        /\ msg.Delivery = DeliveryInterrupt => OpsNamed({"DisplayMessage"}) = {}
        /\ msg.Delivery = DeliveryQueue => OpsNamed({"SendKeysRaw"}) = {}
        /\ \A i \in OpsNamed({"HasSession"}) :
              ops[i].res = "active" =>
                  /\ msg.Delivery = DeliveryInterrupt
                        => Cardinality(OpsNamed({"SendKeysRaw"})) = 1
                  /\ msg.Delivery = DeliveryQueue
                        => Cardinality(OpsNamed({"DisplayMessage"})) = 1

C2_Witness ==
    /\ routerErr = "nil"
    /\ msg.Delivery = DeliveryInterrupt
    /\ OpsNamed({"SendKeysRaw"}) # {}

\* C3: Send returns an error exactly when the store create failed, whatever
\* the presence check and the push came to.
C3_ErrorIffCreateFailed ==
    SendRan => (routerErr = "error" <=> ops[1].res = "error")

C3_Witness ==
    /\ routerErr = "nil"
    /\ \E i \in OpsNamed(PushOpNames) : ops[i].res = "error"

\* C4: in both delivery modes, when the recipient has no session identity
\* or the presence check says absent or fails, a Send whose create succeeded
\* pushes nothing, returns success and leaves the message in the store; with
\* no session identity it does not even check presence.
C4_SilentSkip ==
    (CreateOk /\ (addressToSessionID(msg.To) = NoSession
                  \/ \E i \in OpsNamed({"HasSession"}) : ops[i].res \in {"absent", "error"}))
        => /\ OpsNamed(PushOpNames) = {}
           /\ routerErr = "nil"
           /\ LastStoredIs(msg)
           /\ addressToSessionID(msg.To) = NoSession => OpsNamed(SessionOpNames) = {}

C4_Witness ==
    /\ routerErr = "nil"
    /\ msg.Delivery = DeliveryInterrupt
    /\ Len(ops) = 2
    /\ ops[2].op = "HasSession" /\ ops[2].res = "error"

(***************************************************************************)
(* Properties of the send command (specification Spec).                    *)
(***************************************************************************)
CmdSent == cmdErr # "none" /\ routerErr # "none"
GeneratedThreadIDs == {generateThreadID(b) : b \in RandOutcomes}

\* C5 as stated: after any successful Router.Send the message's threadId is
\* non-empty, whatever message Send was given.
C5_ThreadNonEmptyAfterAnySend ==
    routerErr = "nil" => msg.ThreadID # ""

\* C5 amended: every message the send command hands to Router.Send has a
\* non-empty threadId, passed to the store with --thread-id, and after a
\* successful send that threadId is the one in the store; Router.Send itself
\* persists the threadId it is given.
C5_ThreadNonEmptyAfterCmdSend ==
    /\ CmdSent => (msg.ThreadID # "" /\ ops[1].args.threadId = msg.ThreadID)
    /\ cmdErr = "nil" => (LastStoredIs(msg) /\ store[Len(store)].threadId # "")
    /\ routerErr = "nil" => LastStoredIs(msg)

C5_Witness ==
    /\ cmdErr = "nil"
    /\ flags.mailReplyTo = ""
    /\ msg.ThreadID = "thread-deadbeef001f"

\* C6 as stated: a reply whose original was fetched from the sender's
\* mailbox is sent with the original's threadId; a reply whose lookup failed
\* is still sent, with a generated threadId.
C6_ReplyInheritsThread ==
    (CmdSent /\ flags.mailReplyTo # "") =>
        /\ lookup.res = "found" => msg.ThreadID = lookup.thread
        /\ lookup.res = "failed" => msg.ThreadID \in GeneratedThreadIDs

\* C6 amended: a reply whose original was fetched and has a non-empty
\* threadId is sent with exactly that threadId; a reply whose original has an
\* empty threadId, or whose lookup failed, gets a generated, non-empty
\* threadId; in no case does the lookup stop the send: Router.Send is called
\* and its result is the command's result.
C6_ReplyInheritsNonEmptyThread ==
    /\ (CmdSent /\ flags.mailReplyTo # "") =>
          /\ (lookup.res = "found" /\ lookup.thread # "") => msg.ThreadID = lookup.thread
          /\ (lookup.res = "found" /\ lookup.thread = "")
                => (msg.ThreadID \in GeneratedThreadIDs /\ msg.ThreadID # "")
          /\ lookup.res = "failed"
                => (msg.ThreadID \in GeneratedThreadIDs /\ msg.ThreadID # "")
          /\ lookup.res # "none"
          /\ msg.ReplyTo = flags.mailReplyTo
    /\ (cmdErr # "none" /\ lookup.res # "none") => (routerErr # "none" /\ cmdErr = routerErr)

C6_Witness ==
    /\ cmdErr = "nil"
    /\ lookup.res = "found"
    /\ lookup.thread = "thread-deadbeef001f"
    /\ msg.ThreadID = lookup.thread
    /\ Len(store) = 2 /\ store[1].threadId = store[2].threadId

\* C7: with reply-to set and the type left at notification the message is
\* sent as a reply; with reply-to set and type task or scavenge (or reply)
\* that type is sent; without reply-to the type sent is the type given.
C7_ReplyTypeUpgrade ==
    CmdSent =>
        /\ (flags.mailReplyTo # "" /\ flags.mailType = "notification")
              => msg.Type = TypeReply
        /\ (flags.mailReplyTo # "" /\ flags.mailType \in {"task", "scavenge", "reply"})
              => msg.Type = flags.mailType
        /\ (flags.mailReplyTo = ""
             /\ flags.mailType \in {"notification", "task", "scavenge", "reply"})
              => msg.Type = flags.mailType

C7_Witness ==
    /\ cmdErr = "nil"
    /\ flags.mailReplyTo # ""
    /\ flags.mailType = "notification"
    /\ msg.Type = TypeReply

(***************************************************************************)
(* Properties of the wait command (specifications WaitSpec, WaitFairSpec). *)
(***************************************************************************)
\* the step is a pass of the poll loop
PollStep == wpc = "Waiting" /\ nCount' = nCount + 1
DeadlinePassed == mailWaitTimeout > 0 /\ now > deadline

\* C8: the command starts in Waiting (or, the workspace missing, ends at once
\* with the error exit); a poll whose Count reports unread > 0
\* ends in MailArrived with exit code 0; a poll with unread 0 after a set
\* deadline has passed ends in TimedOut with exit code 1 without a further
\* sleep; any other successful poll sleeps one interval and polls again.
C8_PollTransitions ==
    [][/\ (wpc = "start" /\ wpc' # "start") => (wpc' \in {"Waiting", "Errored"} /\ nCount' = 0)
       /\ (PollStep /\ ~polled'.err) =>
             /\ polled'.unread = unread
             /\ unread > 0 => (wpc' = "MailArrived" /\ exitCode' = ExitMailArrived)
             /\ (unread = 0 /\ DeadlinePassed)
                   => (wpc' = "TimedOut" /\ exitCode' = ExitTimeout /\ nSleep' = nSleep)
             /\ (unread = 0 /\ ~DeadlinePassed) => (wpc' = "Sleeping" /\ exitCode' = -1)
       /\ (wpc = "Sleeping" /\ wpc' # "Sleeping")
             => (wpc' = "Waiting" /\ now' = now + pollInterval /\ nSleep' = nSleep + 1
                 /\ nCount' = nCount)
       /\ (wpc \in {"MailArrived", "TimedOut"}) => (wpc' = wpc /\ nSleep' = nSleep)
      ]_vars

\* a deadline that had passed by the first poll, with nothing unread: timed
\* out without one sleep
C8_Witness ==
    /\ wpc = "TimedOut"
    /\ exitCode = ExitTimeout
    /\ nCount = 1
    /\ nSleep = 0
    /\ polled.unread = 0

\* C9: a poll whose Count fails ends in Errored with exit code 2, never in
\* MailArrived or TimedOut; from Errored there is no further Count call, no
\* sleep and no other transition.
C9_CountErrorIsTerminal ==
    /\ [](polled.err => (wpc = "Errored" /\ exitCode = ExitError))
    /\ [][(PollStep /\ polled'.err) => (wpc' = "Errored" /\ nSleep' = nSleep)]_vars
    /\ [][wpc = "Errored" => (wpc' = "Errored" /\ nCount' = nCount /\ nSleep' = nSleep
                               /\ exitCode' = exitCode /\ polled' = polled)]_vars

\* a Count failure on a poll after a sleep
C9_Witness ==
    /\ wpc = "Errored"
    /\ polled.err
    /\ nCount = 2
    /\ nSleep = 1

\* C10: with a timeout given the command always ends; a poll made after the
\* deadline never goes back to sleep; with no timeout given TimedOut is
\* never reached.
C10_DeadlineTerminates ==
    /\ (mailWaitTimeout > 0) ~> (wpc \in Terminal)
    /\ [][(PollStep /\ DeadlinePassed) => wpc' \in Terminal]_vars
    /\ [](mailWaitTimeout <= 0 => wpc # "TimedOut")

\* a timeout that ran out after the command had slept
C10_Witness ==
    /\ wpc = "TimedOut"
    /\ mailWaitTimeout > 0
    /\ nSleep >= 1
    /\ now > deadline

(***************************************************************************)
(* Properties of the address resolver and of GetMailbox (specification     *)
(* AddrSpec).  The grammar is: mayor/ | mayor | <rig>/ | <rig>/<target>,   *)
(* rig and target non-empty tokens without "/".                            *)
(***************************************************************************)
IsToken(t) == t # <<>> /\ \A i \in 1..Len(t) : t[i] # "/"
MayorTexts == {MayorAddr, <<"m", "a", "y", "o", "r">>}
IsBroadcast(a) == Len(a) > 0 /\ a[Len(a)] = "/" /\ IsToken(SubSeq(a, 1, Len(a) - 1))
IsRigTarget(a) ==
    LET i == IndexOf(a, "/")
    IN  i > 0 /\ IsToken(SubSeq(a, 1, i - 1)) /\ IsToken(SubSeq(a, i + 1, Len(a)))
RigOf(a) == SubSeq(a, 1, IndexOf(a, "/") - 1)
TargetOf(a) == SubSeq(a, IndexOf(a, "/") + 1, Len(a))
MatchesGrammar(a) == a \in MayorTexts \/ IsBroadcast(a) \/ IsRigTarget(a)

\* C11: "mayor/" and "mayor" resolve to the same fixed session identity,
\* and every rig broadcast address "<rig>/" resolves to the empty sentinel.
C11_MayorAndBroadcast ==
    resolved =>
        /\ addr \in MayorTexts => sid = GtMayor
        /\ (IsBroadcast(addr) /\ addr \notin MayorTexts) => sid = NoSession

\* C12: every address <rig>/<target> with non-empty slash-free rig and
\* target resolves to gt-<rig>-<target>.
C12_RigTargetComposed ==
    (resolved /\ IsRigTarget(addr)) =>
        sid = <<"g", "t", "-">> \o RigOf(addr) \o <<"-">> \o TargetOf(addr)

\* C13: every address text outside the grammar resolves to the empty
\* sentinel, and a Send to it attempts no live-session call.
C13_UnparseableIsEmpty ==
    /\ (resolved /\ ~MatchesGrammar(addr)) => sid = NoSession
    /\ (SendRan /\ ~MatchesGrammar(msg.To)) => OpsNamed(SessionOpNames) = {}

\* C14 as stated: on an address text outside the grammar GetMailbox returns
\* an error and Send persists nothing.
C14_MalformedAborted ==
    /\ (mbox.called /\ ~MatchesGrammar(addr)) => mbox.err
    /\ (SendRan /\ ~MatchesGrammar(msg.To)) => (routerErr = "error" /\ store = <<>>)

\* C14, amended: no address text is rejected.  GetMailbox returns a mailbox
\* on the address's identity and a nil error, whatever the text; Send hands
\* the identity to the store's create without checking the text, and the
\* message is persisted exactly when that create succeeds.
C14_NoAddressParseError ==
    /\ mbox.called => (~mbox.err /\ mbox.identity = addressToIdentity(addr))
    /\ SendRan =>
        /\ ops[1].op = "create" /\ ops[1].target = addressToIdentity(msg.To)
        /\ ops[1].res = "ok" <=> (routerErr = "nil" /\ LastStoredIs(msg))

C14_Witness ==
    /\ ~MatchesGrammar(addr)
    /\ mbox.called /\ ~mbox.err
    /\ routerErr = "nil" /\ Len(store) = 1 /\ store[1].to = addr

(***************************************************************************)
(* Properties of the session registry (specification RegSpec).             *)
(***************************************************************************)
ActivePairs == regs[DefaultRegistry]
RegisteredIn(reg, rigName) == \E e \in reg : e[2] = rigName
HqMayor == <<"h", "q", "-", "w">>
XyWorker == <<"x", "y", "-", "w">>
ZzWorker == <<"z", "z", "-", "w">>

C16_UnregisteredGetsDefault ==
    \A n \in RigNames \cup {UnknownRig} :
        /\ ~RegisteredIn(ActivePairs, n) => PrefixFor(n) = DefaultPrefix
        /\ PrefixFor(n) \in Prefixes \cup {DefaultPrefix}

C16_Witness ==
    /\ DefaultRegistry = 2
    /\ RegisteredIn(regs[1], "xrig") /\ ~RegisteredIn(regs[2], "xrig")
    /\ regs[2] # {}
    /\ PrefixFor("xrig") = DefaultPrefix

\* C17: IsKnownSession is true of every name that starts with hq-, in every
\* registry state; of any other name it is true exactly when the text before
\* the name's first "-" is a prefix of the active registry.
C17_KnownSessionClassified ==
    \A name \in SessionNames :
        IF HasPrefix(name, HQPrefix)
        THEN IsKnownSession(name)
        ELSE IsKnownSession(name) <=>
                LET i == IndexOf(name, "-")
                IN  i > 0 /\ SubSeq(name, 1, i - 1) \in {e[1] : e \in ActivePairs}

C17_Witness ==
    /\ DefaultRegistry = 2
    /\ ActivePairs = {<<(<<"x", "y">>), "xrig">>}
    /\ IsKnownSession(HqMayor) /\ IsKnownSession(XyWorker) /\ ~IsKnownSession(ZzWorker)

\* C18: SetDefaultRegistry replaces the whole registry in one step: it
\* writes no registry's pairs; a reader whose call overlaps swaps sees all
\* the pairs of one registry that was the default during the call; and
\* from the swap on DefaultRegistry is the registry set and PrefixFor and
\* IsKnownSession answer from its pairs alone.
C18_AtomicSwap ==
    /\ [](/\ regs = registered
          /\ DefaultRegistry = lastSet
          /\ reader.pc = "loaded" => reader.snap \in reader.actives
          /\ \A n \in RigNames : PrefixFor(n) = PrefixForRig(registered[lastSet], n)
          /\ \A name \in SessionNames :
                 IsKnownSession(name) = IsKnownSessionIn(registered[lastSet], name))
    /\ [][(reader.pc = "loaded" /\ reader'.pc = "idle")
            => Seen \in {registered[a] : a \in reader.actives}]_vars

\* a reader that took the old registry, about to look it up after a swap to
\* a registry with other pairs
C18_Witness ==
    /\ reader.pc = "loaded"
    /\ reader.actives = {1, 2}
    /\ reader.snap # lastSet
    /\ registered[1] # {} /\ registered[2] # {}
    /\ registered[1] \cap registered[2] = {}
    /\ Seen = registered[reader.snap]

(***************************************************************************)
(* Properties of the mailbox (specification MboxSpec).                     *)
(***************************************************************************)
BoxIdx(address) == {i \in DOMAIN store : store[i].to = GetMailbox(address).identity}
IdsOf(msgs) == {msgs[j].id : j \in DOMAIN msgs}
StoreIndex(id) == CHOOSE i \in DOMAIN store : store[i].id = id
MostRecentFirst(msgs) ==
    \A j \in 1..(Len(msgs) - 1) : StoreIndex(msgs[j].id) > StoreIndex(msgs[j + 1].id)
ListNow(address) == MailboxList(store, GetMailbox(address).identity, TRUE).messages
ListUnreadNow(address) ==
    MailboxListUnread(store, GetMailbox(address).identity, TRUE).messages
WaitCountsStore == unread = UnreadOf(store)

\* C19: after a successful Send to an address whose mailbox was empty,
\* ListUnread on that mailbox is exactly the new message, unread; what
\* `gt mail inbox` prints is the mailbox's messages (with --unread the
\* unread ones), most recent first; after `gt mail read` marked a message,
\* it is absent from ListUnread and still present in List.
C19_SendListMarkRead ==
    /\ (mret.cmd = "send" /\ ~mret.err /\ Cardinality(BoxIdx(mret.address)) = 1) =>
          LET u == ListUnreadNow(mret.address)
          IN  Len(u) = 1 /\ u[1].id = mret.id /\ ~u[1].read /\ u[1] = store[Len(store)]
    /\ (mret.cmd = "inbox-unread" /\ ~mret.err) =>
          /\ IdsOf(mret.messages) =
                 {store[i].id : i \in {k \in BoxIdx(mret.address) : ~store[k].read}}
          /\ \A j \in DOMAIN mret.messages : ~mret.messages[j].read
          /\ MostRecentFirst(mret.messages)
    /\ (mret.cmd = "inbox" /\ ~mret.err) =>
          /\ IdsOf(mret.messages) = {store[i].id : i \in BoxIdx(mret.address)}
          /\ Len(mret.messages) = Cardinality(BoxIdx(mret.address))
          /\ MostRecentFirst(mret.messages)
    /\ (mret.cmd = "read" /\ mret.marked) =>
          /\ mret.id \notin IdsOf(ListUnreadNow(mret.address))
          /\ mret.id \in IdsOf(ListNow(mret.address))

\* one message was sent to an empty mailbox and then read
C19_Witness ==
    /\ Len(store) = 1
    /\ mret.cmd = "read" /\ mret.marked /\ ~mret.wasRead
    /\ ListUnreadNow(mret.address) = <<>>
    /\ ListNow(mret.address) = <<store[1]>>

ExitsZero(ret) == ret \in {"nil", "exit0"}

C22_UnreadBeforeDeadline ==
    /\ [][/\ (PollStep /\ ~polled'.err /\ unread > 0)
                => (wpc' = "MailArrived" /\ exitCode' = ExitMailArrived)
          /\ (wpc # "TimedOut" /\ wpc' = "TimedOut")
                => (PollStep /\ ~polled'.err /\ unread = 0 /\ polled'.unread = 0
                    /\ mailWaitTimeout > 0 /\ now > deadline)]_vars
    /\ [](wpc = "TimedOut"
            => (~polled.err /\ polled.unread = 0 /\ polled.at > deadline))

\* mail found by a poll made after the deadline had passed
C22_Witness ==
    /\ wpc = "MailArrived"
    /\ mailWaitTimeout > 0
    /\ polled.at > deadline
    /\ polled.unread > 0
    /\ nCount > 1

(***************************************************************************)
(* Session identities of distinct recipients (specification AddrSpec).     *)
(***************************************************************************)
\* the addresses that name one recipient: the mayor, or <rig>/<target>
IsRecipient(a) == a \in MayorTexts \/ IsRigTarget(a)
SameRecipient(a, b) == a = b \/ (a \in MayorTexts /\ b \in MayorTexts)

\* C23: the session identity of a recipient address is not empty, and no
\* other recipient's address (another rig/target pair, or the mayor)
\* resolves to it.
C23_DistinctSessions ==
    (resolved /\ IsRecipient(addr)) =>
        /\ sid # NoSession
        /\ \A b \in AddrInputs :
              (IsRecipient(b) /\ ~SameRecipient(addr, b)) => addressToSessionID(b) # sid
====
